---- MODULE Spec2Model ----
(***************************************************************************)
(* A model of gold_price_bot.py: one run of the script is a linear         *)
(* pipeline  get_gold_prices -> get_semiconductor_prices ->               *)
(* get_lipf6_price -> send_to_feishu.  The variable entry says what is     *)
(* being executed: the script itself ("main") or one of its functions      *)
(* called directly with inputs drawn from bounded sets.                    *)
(*                                                                         *)
(* Numbers: closing prices are integers, and a quotient is kept as the     *)
(* exact fraction [num, den] (den = 0 is the inf/nan a float64 division    *)
(* by zero yields); float rounding is not modelled.                        *)
(* Text: a cell of a scraped table is the tuple of the characters of       *)
(* str(val); the report is the sequence of its lines, each line a record   *)
(* of what the f-string prints.                                            *)
(***************************************************************************)
EXTENDS Integers, Sequences, FiniteSets, TLC

VARIABLES
    entry,          \* "main" or the name of the function called directly
    pc,             \* position in the code
    i,              \* index of the for loop over symbols (lines 17, 56)
    results,        \* the local dict results of the running fetcher
    fetched,        \* the ticker.history calls of the running fetcher, with outcomes
    gold_data,      \* value returned by get_gold_prices
    semi_data,      \* value returned by get_semiconductor_prices
    response,       \* what requests.get / pd.read_html gave get_lipf6_price
    lipf6,          \* value returned by get_lipf6_price
    material_data,  \* the list built at lines 215-226
    content,        \* the text built by send_to_feishu, line by line
    post,           \* what requests.post gave send_to_feishu
    stdout,         \* everything printed
    exit_code,      \* process exit status, -1 while running
    trace           \* the functions entered so far, in order

vars == <<entry, pc, i, results, fetched, gold_data, semi_data, response, lipf6,
          material_data, content, post, stdout, exit_code, trace>>

----------------------------------------------------------------------------
(* Bounds *)

\* closing prices range over 0..MaxClose when a fetcher is called directly
MaxClose == 2
\* a scraped page holds at most MaxTables tables and at most MaxPageRows rows
MaxTables == 2
MaxPageRows == 3
\* the material list handed to send_to_feishu directly holds at most MaxItems items
MaxItems == 2

\* history(period="2d") returns at most two rows
PeriodDays == 2

----------------------------------------------------------------------------
(* Python values *)

None == [none |-> TRUE]
IsNone(x) == "none" \in DOMAIN x
\* truth value of None or of a non-empty dict (line 219)
Truthy(x) == ~IsNone(x)

\* a dict is the sequence of its (key, value) pairs in insertion order
EmptyDict == <<>>
Has(d, k) == \E j \in 1..Len(d) : d[j].key = k
Get(d, k) == d[CHOOSE j \in 1..Len(d) : d[j].key = k].val
DictSet(d, k, v) ==
    IF Has(d, k)
    THEN [j \in 1..Len(d) |-> IF d[j].key = k THEN [key |-> k, val |-> v] ELSE d[j]]
    ELSE Append(d, [key |-> k, val |-> v])

\* exact arithmetic on fractions
Num(n) == [num |-> n, den |-> 1]
Div(a, b) == [num |-> a, den |-> b]
Mul(r, k) == [num |-> r.num * k, den |-> r.den]

----------------------------------------------------------------------------
(* The market-data provider: ticker.history(period="2d") *)

Raise(m) == [kind |-> "raise", msg |-> m]
Data(c) == [kind |-> "data", close |-> c]

Closes == 0..MaxClose
Frames == UNION {[1..n -> Closes] : n \in 0..PeriodDays}
\* what one history call can give a fetcher called directly
Histories == {Raise("timeout")} \cup {Data(c) : c \in Frames}
\* what one history call can give in a run of the whole script
RunHistories == {Raise("timeout"), Data(<<>>), Data(<<2000>>),
                 Data(<<1990, 2000>>), Data(<<2000, 1990>>)}
HistoryOutcomes == IF entry = "main" THEN RunHistories ELSE Histories

----------------------------------------------------------------------------
(* get_gold_prices, lines 10-43 *)

GoldSymbols == <<"GC=F", "GLD">>
GoldName(sym) == IF sym = "GC=F" THEN "Gold Futures (COMEX)" ELSE "SPDR Gold Shares (ETF)"

\* GoldQuote with the two closes taken in the wrong order
GoldQuoteSwapped(data) ==
    IF Len(data) >= 2
    THEN LET current_price == data[Len(data) - 1]
             prev_price == data[Len(data)]
             change == current_price - prev_price
             change_percent == Mul(Div(change, prev_price), 100)
         IN  <<[price |-> current_price, change |-> change,
                change_percent |-> change_percent, unit |-> "$"]>>
    ELSE IF Len(data) = 1
    THEN <<[price |-> data[Len(data)], change |-> 0,
            change_percent |-> Num(0), unit |-> "$"]>>
    ELSE <<>>

\* lines 21-39: the quote stored for one symbol, <<>> when none is stored
GoldQuote(data) ==
    IF Len(data) >= 2
    THEN LET current_price == data[Len(data)]
             prev_price == data[Len(data) - 1]
             change == current_price - prev_price
             change_percent == Mul(Div(change, prev_price), 100)
         IN  <<[price |-> current_price, change |-> change,
                change_percent |-> change_percent, unit |-> "$"]>>
    ELSE IF Len(data) = 1
    THEN <<[price |-> data[Len(data)], change |-> 0,
            change_percent |-> Num(0), unit |-> "$"]>>
    ELSE <<>>

\* GoldExcept storing an error record as the handler of line 79 does
GoldExceptStore(res, name, e) == DictSet(res, name, [error |-> e])

\* lines 40-41: the handler only prints
GoldExcept(res, name, e) == res

\* lines 18-41: the body of the loop for one symbol
GoldTry(res, sym, o) ==
    IF o.kind = "raise"
    THEN GoldExcept(res, GoldName(sym), o.msg)
    ELSE LET q == GoldQuote(o.close)
         IN  IF q = <<>> THEN res ELSE DictSet(res, GoldName(sym), q[1])

\* what the loop body prints
FetchPrint(sym, o) ==
    IF o.kind = "raise" THEN <<[text |-> "Error fetching", sym |-> sym, e |-> o.msg]>>
    ELSE <<>>

\* NextSymbol leaving the loop after a symbol that gave no quote
NextSymbolAbort(j, o) == IF o.kind = "raise" \/ o.close = <<>> THEN 4 ELSE j + 1

\* lines 17, 40-41 and 56, 77-79: after a symbol, whatever its outcome, the
\* loop goes on with the next one
NextSymbol(j, o) == j + 1

\* where a function returns to
Return(fn, next) == IF entry = fn THEN "exit" ELSE next
ExitCode(fn) == IF entry = fn THEN 0 ELSE -1

Call_get_gold_prices ==
    /\ pc = "main_212"
    /\ pc' = "gold_17"
    /\ i' = 1
    /\ results' = EmptyDict
    /\ fetched' = <<>>
    /\ trace' = Append(trace, "get_gold_prices")
    /\ stdout' = Append(stdout, [text |-> "Starting price fetch..."])
    /\ UNCHANGED <<entry, gold_data, semi_data, response, lipf6, material_data,
                   content, post, exit_code>>

GoldIter ==
    /\ pc = "gold_17"
    /\ i <= Len(GoldSymbols)
    /\ \E o \in HistoryOutcomes :
         /\ results' = GoldTry(results, GoldSymbols[i], o)
         /\ fetched' = Append(fetched, [sym |-> GoldSymbols[i], outcome |-> o])
         /\ stdout' = stdout \o FetchPrint(GoldSymbols[i], o)
         /\ i' = NextSymbol(i, o)
    /\ UNCHANGED <<entry, pc, gold_data, semi_data, response, lipf6, material_data,
                   content, post, exit_code, trace>>

GoldReturn ==
    /\ pc = "gold_17"
    /\ i > Len(GoldSymbols)
    /\ gold_data' = results
    /\ pc' = Return("get_gold_prices", "main_213")
    /\ exit_code' = ExitCode("get_gold_prices")
    /\ i' = 0
    /\ results' = EmptyDict
    /\ fetched' = <<>>
    /\ UNCHANGED <<entry, semi_data, response, lipf6, material_data, content, post,
                   stdout, trace>>

----------------------------------------------------------------------------
(* get_semiconductor_prices, lines 45-81 *)

SemiSymbols == <<"000660.KS", "005930.KS", "285A.T">>
SemiName(sym) ==
    IF sym = "000660.KS" THEN "SK Hynix"
    ELSE IF sym = "005930.KS" THEN "Samsung Electronics" ELSE "Kioxia"
\* the currency signs of lines 51-53, written as currency codes
SemiUnit(sym) == IF sym = "285A.T" THEN "JPY" ELSE "KRW"

\* SemiQuote without the branch for a single data point
SemiQuoteNoPrev(data, unit) ==
    IF Len(data) >= 2
    THEN LET current_price == data[Len(data)]
             change == current_price - data[Len(data) - 1]
             change_percent == Mul(Div(change, data[Len(data) - 1]), 100)
         IN  <<[price |-> current_price, change |-> change,
                change_percent |-> change_percent, unit |-> unit]>>
    ELSE <<>>

\* lines 61-76
SemiQuote(data, unit) ==
    IF Len(data) >= 1
    THEN LET current_price == data[Len(data)]
             change == IF Len(data) >= 2 THEN current_price - data[Len(data) - 1] ELSE 0
             change_percent ==
                 IF Len(data) >= 2
                 THEN Mul(Div(change, data[Len(data) - 1]), 100)
                 ELSE Num(0)
         IN  <<[price |-> current_price, change |-> change,
                change_percent |-> change_percent, unit |-> unit]>>
    ELSE <<>>

\* lines 77-79: the handler stores an error record
SemiExcept(res, name, e) == DictSet(res, name, [error |-> e])

\* lines 57-79
SemiTry(res, sym, o) ==
    IF o.kind = "raise"
    THEN SemiExcept(res, SemiName(sym), o.msg)
    ELSE LET q == SemiQuote(o.close, SemiUnit(sym))
         IN  IF q = <<>> THEN res ELSE DictSet(res, SemiName(sym), q[1])

Call_get_semiconductor_prices ==
    /\ pc = "main_213"
    /\ pc' = "semi_56"
    /\ i' = 1
    /\ results' = EmptyDict
    /\ fetched' = <<>>
    /\ trace' = Append(trace, "get_semiconductor_prices")
    /\ UNCHANGED <<entry, gold_data, semi_data, response, lipf6, material_data,
                   content, post, stdout, exit_code>>

SemiIter ==
    /\ pc = "semi_56"
    /\ i <= Len(SemiSymbols)
    /\ \E o \in HistoryOutcomes :
         /\ results' = SemiTry(results, SemiSymbols[i], o)
         /\ fetched' = Append(fetched, [sym |-> SemiSymbols[i], outcome |-> o])
         /\ stdout' = stdout \o FetchPrint(SemiSymbols[i], o)
         /\ i' = NextSymbol(i, o)
    /\ UNCHANGED <<entry, pc, gold_data, semi_data, response, lipf6, material_data,
                   content, post, exit_code, trace>>

SemiReturn ==
    /\ pc = "semi_56"
    /\ i > Len(SemiSymbols)
    /\ semi_data' = results
    /\ pc' = Return("get_semiconductor_prices", "main_218")
    /\ exit_code' = ExitCode("get_semiconductor_prices")
    /\ i' = 0
    /\ results' = EmptyDict
    /\ fetched' = <<>>
    /\ UNCHANGED <<entry, gold_data, response, lipf6, material_data, content, post,
                   stdout, trace>>

----------------------------------------------------------------------------
(* Text: str.replace, str.strip, float, str.contains *)

Uppers == <<"A", "B", "C", "D", "E", "F", "G", "H", "I", "J", "K", "L", "M",
            "N", "O", "P", "Q", "R", "S", "T", "U", "V", "W", "X", "Y", "Z">>
Lowers == <<"a", "b", "c", "d", "e", "f", "g", "h", "i", "j", "k", "l", "m",
            "n", "o", "p", "q", "r", "s", "t", "u", "v", "w", "x", "y", "z">>
Digits == <<"0", "1", "2", "3", "4", "5", "6", "7", "8", "9">>

Lower(c) ==
    IF \E k \in 1..Len(Uppers) : Uppers[k] = c
    THEN Lowers[CHOOSE k \in 1..Len(Uppers) : Uppers[k] = c]
    ELSE c
LowerStr(s) == [k \in 1..Len(s) |-> Lower(s[k])]

IsDigit(c) == \E k \in 1..Len(Digits) : Digits[k] = c
DigitVal(c) == (CHOOSE k \in 1..Len(Digits) : Digits[k] = c) - 1

\* s.replace(',', '')
RemoveCommas(s) == SelectSeq(s, LAMBDA c : c # ",")

\* s.strip(), for the blank as the only whitespace
RECURSIVE LStrip(_)
LStrip(s) == IF s # <<>> /\ Head(s) = " " THEN LStrip(Tail(s)) ELSE s
RECURSIVE RStrip(_)
RStrip(s) == IF s # <<>> /\ s[Len(s)] = " " THEN RStrip(SubSeq(s, 1, Len(s) - 1)) ELSE s
Strip(s) == RStrip(LStrip(s))

RECURSIVE DigitsValue(_)
DigitsValue(s) ==
    IF s = <<>> THEN 0
    ELSE DigitsValue(SubSeq(s, 1, Len(s) - 1)) * 10 + DigitVal(s[Len(s)])
RECURSIVE Pow10(_)
Pow10(n) == IF n = 0 THEN 1 ELSE 10 * Pow10(n - 1)

NaN == [kind |-> "nan", num |-> 0, den |-> 0]
Inf(sign) == [kind |-> "inf", num |-> sign, den |-> 0]
Fin(n, d) == [kind |-> "fin", num |-> n, den |-> d]

\* float(s) for s without surrounding blanks: <<v>>, or <<>> for ValueError.
\* The literals covered are nan, inf, infinity and signed decimals without
\* exponent.
Float(s) ==
    LET signed == s # <<>> /\ s[1] \in {"+", "-"}
        sign == IF signed /\ s[1] = "-" THEN -1 ELSE 1
        body == IF signed THEN Tail(s) ELSE s
        word == LowerStr(body)
        dots == {k \in 1..Len(body) : body[k] = "."}
        dot == IF dots = {} THEN Len(body) + 1 ELSE CHOOSE k \in dots : TRUE
        int == SubSeq(body, 1, dot - 1)
        frac == SubSeq(body, dot + 1, Len(body))
    IN  IF word = <<"n", "a", "n">> THEN <<NaN>>
        ELSE IF word \in {<<"i", "n", "f">>, <<"i", "n", "f", "i", "n", "i", "t", "y">>}
        THEN <<Inf(sign)>>
        ELSE IF /\ Cardinality(dots) <= 1
                /\ Len(int) + Len(frac) >= 1
                /\ \A k \in 1..Len(body) : k \in dots \/ IsDigit(body[k])
        THEN <<Fin(sign * DigitsValue(int \o frac), Pow10(Len(frac)))>>
        ELSE <<>>

\* line 123: float(str(val).replace(',', '').strip())
ParseCell(val) == Float(Strip(RemoveCommas(val)))

\* IsPrice with the threshold included
IsPriceFrom1000(v) ==
    \/ v.kind = "inf" /\ v.num > 0
    \/ v.kind = "fin" /\ v.num >= 1000 * v.den

\* line 124: price_val > 1000 (a comparison with nan is false)
IsPrice(v) ==
    \/ v.kind = "inf" /\ v.num > 0
    \/ v.kind = "fin" /\ v.num > 1000 * v.den

\* str.contains(pat, case=False, regex=False)
Contains(hay, pat) ==
    \E k \in 0..(Len(hay) - Len(pat)) :
        \A j \in 1..Len(pat) : Lower(hay[k + j]) = Lower(pat[j])

----------------------------------------------------------------------------
(* get_lipf6_price, lines 83-139 *)

ProductName == <<"L", "i", "t", "h", "i", "u", "m", " ", "h", "e", "x", "a", "f", "l",
                 "u", "o", "r", "o", "p", "h", "o", "s", "p", "h", "a", "t", "e">>

\* line 112: the rows of df with a cell containing the product name
Mask(df) == {r \in 1..Len(df) : \E c \in 1..Len(df[r]) : Contains(df[r][c], ProductName)}

\* lines 120-132: the first value of the row that is a price, <<>> if none
RECURSIVE ScanRow(_, _)
ScanRow(row_values, c) ==
    IF c > Len(row_values) THEN <<>>
    ELSE LET price_val == ParseCell(row_values[c])
         IN  IF price_val # <<>> /\ IsPrice(price_val[1])
             THEN <<price_val[1]>>
             ELSE ScanRow(row_values, c + 1)

\* line 115: df[mask].iloc[0]
TargetRow(df) == df[CHOOSE r \in Mask(df) : \A q \in Mask(df) : r <= q]

\* lines 108-132: the tables in order, <<>> when the loop ends without a return
RECURSIVE ScanTables(_, _)
ScanTables(dfs, k) ==
    IF k > Len(dfs) THEN <<>>
    ELSE IF Mask(dfs[k]) # {} /\ ScanRow(TargetRow(dfs[k]), 1) # <<>>
    THEN ScanRow(TargetRow(dfs[k]), 1)
    ELSE ScanTables(dfs, k + 1)

\* the item names of lines 126, 223 and 226 and the unit of line 128, in ASCII
LiPF6Name == "LiPF6"
VCName == "VC"

\* lines 125-130
LiPF6Record(price_val) ==
    [name |-> LiPF6Name, price |-> price_val, unit |-> "CNY/t", source |-> "SunSirs"]

\* StatusOK without the check
StatusAny(status) == TRUE

\* line 99
StatusOK(status) == status = 200

\* the value returned, and what is printed on the way
get_lipf6_price(resp) ==
    IF resp.kind = "raise"
    THEN [ret |-> None, out |-> <<[text |-> "Error fetching LiPF6 from SunSirs"]>>]
    ELSE IF ~StatusOK(resp.status)
    THEN [ret |-> None, out |-> <<[text |-> "SunSirs Error: Status Code"]>>]
    ELSE IF resp.tables.kind = "raise"
    THEN [ret |-> None, out |-> <<[text |-> "Error fetching LiPF6 from SunSirs"]>>]
    ELSE LET found == ScanTables(resp.tables.dfs, 1)
         IN  IF found # <<>>
             THEN [ret |-> LiPF6Record(found[1]), out |-> <<>>]
             ELSE [ret |-> None, out |-> <<[text |-> "SunSirs Warning"]>>]

\* the cells of the pages
c_name == ProductName
c_upper == <<"L", "I", "T", "H", "I", "U", "M", " ", "H", "E", "X", "A", "F", "L", "U",
             "O", "R", "O", "P", "H", "O", "S", "P", "H", "A", "T", "E", " ", "(", "L",
             "i", "P", "F", "6", ")">>
c_lower == LowerStr(ProductName)
c_other == <<"L", "i", "t", "h", "i", "u", "m", " ", "c", "a", "r", "b", "o", "n", "a",
             "t", "e">>
c_sector == <<"C", "h", "e", "m", "i", "c", "a", "l", "s">>
c_date == <<"2", "0", "2", "4", "-", "0", "1", "-", "0", "1">>
c_95000 == <<"9", "5", "0", "0", "0">>
c_1000 == <<"1", "0", "0", "0">>
c_year == <<"2", "0", "2", "4">>
c_comma == <<" ", "1", ",", "2", "3", "4", ".", "5", " ">>
c_nan == <<"n", "a", "n">>
c_neg == <<"-", "8", "8", "0", "0", "0">>

\* the row of the specification's example; a row naming the product without a
\* price; a row of another product; a row with the name in its last column
RowPool == { <<c_name, c_sector, c_95000, c_date>>,
             <<c_upper, c_neg, c_1000, c_nan>>,
             <<c_other, c_sector, c_comma, c_date>>,
             <<c_year, c_comma, c_lower, c_95000>> }

SeqsUpTo(S, lo, hi) == UNION {[1..n -> S] : n \in lo..hi}

\* the rows rs cut into Len(cuts) + 1 consecutive tables
Cut(rs, cuts) ==
    [t \in 1..(Len(cuts) + 1) |->
        SubSeq(rs, IF t = 1 THEN 1 ELSE cuts[t - 1] + 1,
                   IF t = Len(cuts) + 1 THEN Len(rs) ELSE cuts[t])]
Cuts(n, k) == {c \in [1..k -> 0..n] : \A a, b \in 1..k : a <= b => c[a] <= c[b]}

\* pd.read_html returns at least one table or raises; a table may have no row
PagePool ==
    UNION { UNION { {Cut(rs, c) : c \in Cuts(Len(rs), k - 1)} : k \in 1..MaxTables }
            : rs \in SeqsUpTo(RowPool, 0, MaxPageRows) }

Statuses == {200, 201, 204, 404, 500}
NoTables == [kind |-> "raise"]
Http(status, tables) == [kind |-> "http", status |-> status, tables |-> tables]
Dfs(dfs) == [kind |-> "dfs", dfs |-> dfs]

Responses ==
    {[kind |-> "raise"]}
    \cup {Http(s, NoTables) : s \in Statuses}
    \cup {Http(200, Dfs(p)) : p \in PagePool}
RunResponses ==
    {[kind |-> "raise"]}
    \cup {Http(s, NoTables) : s \in Statuses}
    \cup {Http(s, Dfs(<<<<r>>>>)) : s \in {200, 500}, r \in RowPool}
ScrapeResponses == IF entry = "main" THEN RunResponses ELSE Responses

Call_get_lipf6_price ==
    /\ pc = "main_218"
    /\ \E resp \in ScrapeResponses :
         /\ response' = resp
         /\ lipf6' = get_lipf6_price(resp).ret
         /\ stdout' = stdout \o get_lipf6_price(resp).out
    /\ pc' = Return("get_lipf6_price", "main_219")
    /\ exit_code' = ExitCode("get_lipf6_price")
    /\ trace' = IF entry = "main" THEN Append(trace, "get_lipf6_price") ELSE trace
    /\ UNCHANGED <<entry, i, results, fetched, gold_data, semi_data, material_data,
                   content, post>>

----------------------------------------------------------------------------
(* The orchestrator, lines 215-226 *)

Fallback == [name |-> LiPF6Name, error |-> "Fetch Failed (Check Logs)"]
VCPlaceholder == [name |-> VCName, error |-> "No Source"]

\* Materials with the VC placeholder appended in the first branch only
MaterialsNoVC(l) ==
    IF Truthy(l) THEN Append(Append(<<>>, l), VCPlaceholder) ELSE Append(<<>>, Fallback)

\* lines 215-226
Materials(l) == Append(Append(<<>>, IF Truthy(l) THEN l ELSE Fallback), VCPlaceholder)

MainMaterials ==
    /\ pc = "main_219"
    /\ material_data' = Materials(lipf6)
    /\ pc' = "send_145"
    /\ UNCHANGED <<entry, i, results, fetched, gold_data, semi_data, response, lipf6,
                   content, post, stdout, exit_code, trace>>

----------------------------------------------------------------------------
(* send_to_feishu, lines 141-207 *)

RECURSIVE Flatten(_)
Flatten(ss) == IF ss = <<>> THEN <<>> ELSE Head(ss) \o Flatten(Tail(ss))

\* line 154, 168
Trend(change) == IF change >= 0 THEN "up" ELSE "down"

\* info[k] raises KeyError for a key the record lacks
Missing(info, keys) == \E k \in keys : k \notin DOMAIN info

\* lines 153-157: the three lines of one entry
GoldEntry(name, info) ==
    << [sec |-> "metals", kind |-> "name", name |-> name],
       [sec |-> "metals", kind |-> "price", unit |-> info.unit, price |-> info.price],
       [sec |-> "metals", kind |-> "change", trend |-> Trend(info.change),
        change |-> info.change, change_percent |-> info.change_percent] >>

\* MetalsSection without the warning for an empty dict
MetalsSectionNoWarning(gold_prices) ==
    <<[sec |-> "metals", kind |-> "title"]>> \o
    Flatten([j \in 1..Len(gold_prices) |->
               GoldEntry(gold_prices[j].key, gold_prices[j].val)])

\* lines 149-157
MetalsSection(gold_prices) ==
    <<[sec |-> "metals", kind |-> "title"]>> \o
    IF gold_prices = EmptyDict
    THEN <<[sec |-> "metals", kind |-> "warning"]>>
    ELSE Flatten([j \in 1..Len(gold_prices) |->
                    GoldEntry(gold_prices[j].key, gold_prices[j].val)])

\* lines 165-172
SemiEntry(name, info) ==
    IF "error" \in DOMAIN info
    THEN << [sec |-> "memory", kind |-> "error", name |-> name, error |-> info.error] >>
    ELSE << [sec |-> "memory", kind |-> "name", name |-> name],
            [sec |-> "memory", kind |-> "price", unit |-> info.unit, price |-> info.price],
            [sec |-> "memory", kind |-> "change", trend |-> Trend(info.change),
             change |-> info.change, change_percent |-> info.change_percent] >>

\* lines 160-172
MemorySection(semi_prices) ==
    <<[sec |-> "memory", kind |-> "title"]>> \o
    IF semi_prices = EmptyDict
    THEN <<[sec |-> "memory", kind |-> "warning"]>>
    ELSE Flatten([j \in 1..Len(semi_prices) |->
                    SemiEntry(semi_prices[j].key, semi_prices[j].val)])

\* lines 180-185
MaterialEntry(item) ==
    IF "error" \in DOMAIN item
    THEN << [sec |-> "materials", kind |-> "error", name |-> item.name,
             error |-> item.error] >>
    ELSE << [sec |-> "materials", kind |-> "name", name |-> item.name],
            [sec |-> "materials", kind |-> "price", unit |-> item.unit,
             price |-> item.price],
            [sec |-> "materials", kind |-> "source", source |-> item.source] >>

\* lines 175-185
MaterialsSection(material_prices) ==
    <<[sec |-> "materials", kind |-> "title"]>> \o
    IF material_prices = <<>>
    THEN <<[sec |-> "materials", kind |-> "warning"]>>
    ELSE Flatten([j \in 1..Len(material_prices) |-> MaterialEntry(material_prices[j])])

QuoteKeys == {"price", "change", "change_percent", "unit"}

\* the subscripts of lines 154-157, 168-172 and 181-185 that raise KeyError
FormatRaises(gold_prices, semi_prices, material_prices) ==
    \/ \E j \in 1..Len(gold_prices) : Missing(gold_prices[j].val, QuoteKeys)
    \/ \E j \in 1..Len(semi_prices) :
         /\ "error" \notin DOMAIN semi_prices[j].val
         /\ Missing(semi_prices[j].val, QuoteKeys)
    \/ \E j \in 1..Len(material_prices) :
         \/ Missing(material_prices[j], {"name"})
         \/ /\ "error" \notin DOMAIN material_prices[j]
            /\ Missing(material_prices[j], {"price", "unit", "source"})

\* lines 145-187
Content(gold_prices, semi_prices, material_prices) ==
    <<[sec |-> "header", kind |-> "title"]>>
    \o MetalsSection(gold_prices)
    \o MemorySection(semi_prices)
    \o MaterialsSection(material_prices)
    \o <<[sec |-> "footer", kind |-> "rule"]>>

\* lines 145-194; an exception raised here is caught nowhere
Format ==
    /\ pc = "send_145"
    /\ trace' = Append(trace, "format")
    /\ IF FormatRaises(gold_data, semi_data, material_data)
       THEN /\ pc' = "exit"
            /\ exit_code' = 1
            /\ stdout' = Append(stdout, [text |-> "Traceback: KeyError"])
            /\ UNCHANGED content
       ELSE /\ pc' = "send_196"
            /\ content' = Content(gold_data, semi_data, material_data)
            /\ UNCHANGED <<exit_code, stdout>>
    /\ UNCHANGED <<entry, i, results, fetched, gold_data, semi_data, response, lipf6,
                   material_data, post>>

PostOutcomes == {[kind |-> "raise"]} \cup {[kind |-> "http", status |-> s] : s \in Statuses}

\* Delivered for every 2xx status
Delivered2xx(status) == status \in 200..299

\* line 202
Delivered(status) == status = 200

\* lines 202-207: the line printed for an outcome of requests.post
PostPrint(o) ==
    IF o.kind = "raise" THEN [text |-> "Error sending to Feishu"]
    ELSE IF Delivered(o.status) THEN [text |-> "Successfully sent to Feishu."]
    ELSE [text |-> "Failed to send to Feishu."]

\* lines 196-207, then the return to line 228, the last of the script
Post ==
    /\ pc = "send_196"
    /\ \E o \in PostOutcomes :
         /\ post' = o
         /\ stdout' = Append(stdout, PostPrint(o))
    /\ trace' = Append(trace, "post")
    /\ pc' = "exit"
    /\ exit_code' = 0
    /\ UNCHANGED <<entry, i, results, fetched, gold_data, semi_data, response, lipf6,
                   material_data, content>>

----------------------------------------------------------------------------
(* Specifications *)

NoResponse == [kind |-> "none"]

Blank(e, p) ==
    /\ entry = e
    /\ pc = p
    /\ i = IF p \in {"gold_17", "semi_56"} THEN 1 ELSE 0
    /\ results = EmptyDict
    /\ fetched = <<>>
    /\ response = NoResponse
    /\ lipf6 = None
    /\ content = <<>>
    /\ post = NoResponse
    /\ stdout = <<>>
    /\ exit_code = -1
    /\ trace = IF e = "main" THEN <<>> ELSE <<e>>

\* python gold_price_bot.py
Init ==
    /\ Blank("main", "main_212")
    /\ gold_data = EmptyDict
    /\ semi_data = EmptyDict
    /\ material_data = <<>>

Next ==
    \/ Call_get_gold_prices
    \/ GoldIter
    \/ GoldReturn
    \/ Call_get_semiconductor_prices
    \/ SemiIter
    \/ SemiReturn
    \/ Call_get_lipf6_price
    \/ MainMaterials
    \/ Format
    \/ Post

Spec == Init /\ [][Next]_vars

\* the script is a sequential program: a step that can be taken is taken
FairSpec == Spec /\ WF_vars(Next)

\* the fetchers called directly
FetchInit ==
    /\ \/ Blank("get_gold_prices", "gold_17")
       \/ Blank("get_semiconductor_prices", "semi_56")
    /\ gold_data = EmptyDict
    /\ semi_data = EmptyDict
    /\ material_data = <<>>

FetchNext == GoldIter \/ GoldReturn \/ SemiIter \/ SemiReturn

FetchSpec == FetchInit /\ [][FetchNext]_vars

\* get_lipf6_price called directly
ScrapeInit ==
    /\ Blank("get_lipf6_price", "main_218")
    /\ gold_data = EmptyDict
    /\ semi_data = EmptyDict
    /\ material_data = <<>>

ScrapeNext == Call_get_lipf6_price

ScrapeSpec == ScrapeInit /\ [][ScrapeNext]_vars

\* send_to_feishu called directly, with dicts the fetchers can return and
\* lists of the items the orchestrator can build
RECURSIVE GoldDictsFrom(_, _)
GoldDictsFrom(res, j) ==
    IF j > Len(GoldSymbols) THEN {res}
    ELSE UNION {GoldDictsFrom(GoldTry(res, GoldSymbols[j], o), j + 1) : o \in RunHistories}
RECURSIVE SemiDictsFrom(_, _)
SemiDictsFrom(res, j) ==
    IF j > Len(SemiSymbols) THEN {res}
    ELSE UNION {SemiDictsFrom(SemiTry(res, SemiSymbols[j], o), j + 1) : o \in RunHistories}
ItemPool == {LiPF6Record(Fin(95000, 1)), Fallback, VCPlaceholder}

FmtInit ==
    /\ Blank("send_to_feishu", "send_145")
    /\ gold_data \in GoldDictsFrom(EmptyDict, 1)
    /\ semi_data \in SemiDictsFrom(EmptyDict, 1)
    /\ material_data \in SeqsUpTo(ItemPool, 0, MaxItems)

FmtNext == Format \/ Post

FmtSpec == FmtInit /\ [][FmtNext]_vars

----------------------------------------------------------------------------
(* Properties *)

Entry(d, k) == IF Has(d, k) THEN <<Get(d, k)>> ELSE <<>>
InLoop == pc \in {"gold_17", "semi_56"}
Symbols == IF pc = "gold_17" THEN GoldSymbols ELSE SemiSymbols
NameOf(sym) == IF pc = "gold_17" THEN GoldName(sym) ELSE SemiName(sym)
Alone(sym, o) ==
    IF pc = "gold_17" THEN GoldTry(EmptyDict, sym, o) ELSE SemiTry(EmptyDict, sym, o)
IsQuote(q) == "error" \notin DOMAIN q /\ QuoteKeys \subseteq DOMAIN q
Formatted == pc = "send_196" \/ (pc = "exit" /\ exit_code = 0 /\ content # <<>>)
Names(sec) ==
    {content[k].name : k \in {n \in 1..Len(content) :
        content[n].sec = sec /\ content[n].kind \in {"name", "error"}}}
SectionLines(sec) == SelectSeq(content, LAMBDA l : l.sec = sec)
Entries(sec) == SelectSeq(content, LAMBDA l : l.sec = sec /\ l.kind \in {"name", "error"})
Warnings(sec) == SelectSeq(content, LAMBDA l : l.sec = sec /\ l.kind = "warning")

\* C1: in a run of the script, the report handed to the notifier names every
\* configured item: both gold symbols, the three semiconductor symbols, LiPF6
\* and VC, each as a success entry or as a failure entry.
C1_EveryItemReported ==
    (entry = "main" /\ Formatted) =>
        /\ \A k \in 1..Len(GoldSymbols) : GoldName(GoldSymbols[k]) \in Names("metals")
        /\ \A k \in 1..Len(SemiSymbols) : SemiName(SemiSymbols[k]) \in Names("memory")
        /\ {LiPF6Name, VCName} \subseteq Names("materials")

\* C2: while a fetcher loops, every symbol before the loop index has been
\* requested, in order and whatever the outcomes of the earlier ones, and the
\* entry results holds for it is the one its own outcome gives on its own.
C2_SymbolsIsolated ==
    InLoop =>
        /\ i <= Len(Symbols) + 1
        /\ Len(fetched) = i - 1
        /\ \A j \in 1..Len(fetched) :
             /\ fetched[j].sym = Symbols[j]
             /\ Entry(results, NameOf(Symbols[j]))
                  = Entry(Alone(Symbols[j], fetched[j].outcome), NameOf(Symbols[j]))

C2_Witness ==
    /\ pc = "semi_56"
    /\ i = 4
    /\ fetched[1].outcome.kind = "raise"
    /\ fetched[2].outcome = Data(<<>>)
    /\ fetched[3].outcome = Data(<<1, 2>>)
    /\ Has(results, "Kioxia")
    /\ Get(results, "Kioxia").change = 1

\* C3: under fair scheduling every run of the script enters get_gold_prices,
\* get_semiconductor_prices, get_lipf6_price, the formatting and the webhook
\* post in this order and then exits with status 0.
C3_RunCompletes ==
    <>(/\ pc = "exit"
       /\ exit_code = 0
       /\ trace = <<"get_gold_prices", "get_semiconductor_prices", "get_lipf6_price",
                    "format", "post">>)

C3_Witness ==
    /\ entry = "main"
    /\ pc = "exit"
    /\ exit_code = 0
    /\ gold_data = EmptyDict
    /\ \A k \in 1..Len(semi_data) : "error" \in DOMAIN semi_data[k].val
    /\ Len(semi_data) = 3
    /\ response.kind = "raise"
    /\ post.kind = "raise"

SuccessLogged == stdout[Len(stdout)] = [text |-> "Successfully sent to Feishu."]
FailureLogged ==
    stdout[Len(stdout)].text \in {"Failed to send to Feishu.", "Error sending to Feishu"}

\* C4 as stated: delivery success is signalled exactly when the status is 2xx.
C4_SuccessIff2xx ==
    (post.kind # "none") =>
        (SuccessLogged <=> (post.kind = "http" /\ post.status \in 200..299))

\* C4: the notifier signals delivery success exactly when the status is 200;
\* for every other status and for a transport exception it logs a failure,
\* and in all cases it returns without raising.
C4_SuccessIff200 ==
    (post.kind # "none") =>
        /\ SuccessLogged <=> (post.kind = "http" /\ post.status = 200)
        /\ ~SuccessLogged => FailureLogged
        /\ pc = "exit" /\ exit_code = 0

C4_Witness ==
    /\ post.kind = "http"
    /\ post.status = 204
    /\ FailureLogged
    /\ exit_code = 0

RowHasName(row) == \E c \in 1..Len(row) : Contains(row[c], ProductName)
PageHasName(resp) ==
    /\ resp.tables.kind = "dfs"
    /\ \E t \in 1..Len(resp.tables.dfs) :
         \E r \in 1..Len(resp.tables.dfs[t]) : RowHasName(resp.tables.dfs[t][r])
ScrapeFailed(resp) ==
    \/ resp.kind = "raise"
    \/ resp.kind = "http" /\ resp.status \notin 200..299
    \/ resp.kind = "http" /\ ~PageHasName(resp)

\* C5: when the page fetch fails (transport error or a status that is not
\* 2xx) or no row of the page contains the product name, get_lipf6_price
\* returns None without raising, and the orchestrator puts the LiPF6 failure
\* record, not a price, first into the material list and so into the report.
C5_FailureIsExplicit ==
    (response.kind # "none" /\ ScrapeFailed(response)) =>
        /\ IsNone(lipf6)
        /\ exit_code \in {-1, 0}
        /\ pc \in {"send_145", "send_196", "exit"} =>
             /\ material_data[1] = Fallback
             /\ \A k \in 1..Len(material_data) : "price" \notin DOMAIN material_data[k]
        /\ Formatted =>
             /\ Entries("materials")[1].kind = "error"
             /\ Entries("materials")[1].name = LiPF6Name
             /\ \A k \in 1..Len(content) :
                  content[k].sec = "materials" => content[k].kind # "price"

C5_Witness ==
    /\ entry = "main"
    /\ pc = "exit"
    /\ response.kind = "http"
    /\ response.status = 200
    /\ response.tables.kind = "dfs"
    /\ ~PageHasName(response)
    /\ material_data[1] = Fallback

\* the threshold of the claim, stated on its own
Exceeds1000(v) ==
    \/ (v.kind = "inf" /\ v.num > 0)
    \/ (v.kind = "fin" /\ v.num > 1000 * v.den)
IsNumberOver1000(cell) == ParseCell(cell) # <<>> /\ Exceeds1000(ParseCell(cell)[1])
ExampleRow == <<c_name, c_sector, c_95000, c_date>>

\* C6: whenever get_lipf6_price returns a record, its price is the value of
\* the first cell, in column order, that parses as a number above 1000 in a
\* row containing the product name; for the page whose only row is
\* ["Lithium hexafluorophosphate", "Chemicals", "95000", "2024-01-01"] the
\* price is 95000.
C6_PriceIsFirstOver1000 ==
    (response.kind # "none") =>
        /\ Truthy(lipf6) =>
             /\ response.kind = "http"
             /\ response.tables.kind = "dfs"
             /\ Exceeds1000(lipf6.price)
             /\ \E t \in 1..Len(response.tables.dfs) :
                  \E r \in 1..Len(response.tables.dfs[t]) :
                     LET row == response.tables.dfs[t][r]
                     IN  /\ RowHasName(row)
                         /\ \E c \in 1..Len(row) :
                              /\ IsNumberOver1000(row[c])
                              /\ ParseCell(row[c])[1] = lipf6.price
                              /\ \A b \in 1..(c - 1) : ~IsNumberOver1000(row[b])
        /\ response = Http(200, Dfs(<<<<ExampleRow>>>>)) =>
             /\ Truthy(lipf6)
             /\ lipf6.price = Fin(95000, 1)

C6_Witness ==
    /\ entry = "get_lipf6_price"
    /\ response.kind = "http"
    /\ response.tables.kind = "dfs"
    /\ Len(response.tables.dfs) = 2
    /\ response.tables.dfs[1] = << <<c_upper, c_neg, c_1000, c_nan>> >>
    /\ response.tables.dfs[2] = << <<c_other, c_sector, c_comma, c_date>>,
                                   <<c_year, c_comma, c_lower, c_95000>> >>
    /\ Truthy(lipf6)
    /\ lipf6.price = Fin(2024, 1)

SectionOK(sec, collection) ==
    IF Len(collection) = 0
    THEN SectionLines(sec) = <<[sec |-> sec, kind |-> "title"],
                               [sec |-> sec, kind |-> "warning"]>>
    ELSE /\ Warnings(sec) = <<>>
         /\ Len(Entries(sec)) = Len(collection)

\* C7: in the text send_to_feishu builds, each section depends on its own
\* collection only: for an empty collection it is the title and the
\* category warning line and nothing else, otherwise it has no warning line
\* and one entry per item.
C7_SectionsIndependent ==
    Formatted =>
        /\ SectionOK("metals", gold_data)
        /\ SectionOK("memory", semi_data)
        /\ SectionOK("materials", material_data)
        /\ \A k \in 1..Len(gold_data) : Entries("metals")[k].name = gold_data[k].key
        /\ \A k \in 1..Len(semi_data) : Entries("memory")[k].name = semi_data[k].key
        /\ \A k \in 1..Len(material_data) :
             Entries("materials")[k].name = material_data[k].name

C7_Witness ==
    /\ entry = "send_to_feishu"
    /\ pc = "send_196"
    /\ gold_data = EmptyDict
    /\ Len(semi_data) = 1
    /\ IsQuote(semi_data[1].val)
    /\ Len(Warnings("metals")) = 1
    /\ Len(Entries("memory")) = 1
    /\ Entries("memory")[1].kind = "name"

\* C8: a symbol whose history has exactly one data point gets a quote, not
\* an error record, with the fields change and change_percent both present
\* and both zero.
C8_OnePointZeroChange ==
    InLoop =>
        \A j \in 1..Len(fetched) :
            LET o == fetched[j].outcome
                name == NameOf(fetched[j].sym)
            IN  (o.kind = "data" /\ Len(o.close) = 1) =>
                    /\ Has(results, name)
                    /\ IsQuote(Get(results, name))
                    /\ Get(results, name).price = o.close[1]
                    /\ Get(results, name).change = 0
                    /\ Get(results, name).change_percent.num = 0
                    /\ Get(results, name).change_percent.den # 0

C8_Witness ==
    /\ pc = "semi_56"
    /\ i = 3
    /\ fetched[1].outcome = Data(<<2>>)
    /\ fetched[2].outcome = Data(<<1>>)
    /\ Get(results, "SK Hynix").change_percent = Num(0)
    /\ Get(results, "Samsung Electronics").price = 1

\* C9: a symbol whose history has the two data points previous, latest with
\* previous # 0 gets a quote with change = latest - previous and
\* change_percent = (latest - previous) / previous * 100.
C9_TwoPointChange ==
    InLoop =>
        \A j \in 1..Len(fetched) :
            LET o == fetched[j].outcome
                name == NameOf(fetched[j].sym)
            IN  (o.kind = "data" /\ Len(o.close) = 2 /\ o.close[1] # 0) =>
                    LET previous == o.close[1]
                        latest == o.close[2]
                        q == Get(results, name)
                    IN  /\ Has(results, name)
                        /\ IsQuote(q)
                        /\ q.price = latest
                        /\ q.change = latest - previous
                        /\ q.change_percent.den # 0
                        /\ q.change_percent.num * previous
                             = (latest - previous) * 100 * q.change_percent.den

C9_Witness ==
    /\ pc = "gold_17"
    /\ i = 3
    /\ fetched[1].outcome = Data(<<2, 1>>)
    /\ fetched[2].outcome = Data(<<1, 2>>)
    /\ Get(results, GoldName("GC=F")).change_percent = [num |-> -100, den |-> 2]
    /\ Get(results, GoldName("GLD")).change_percent = [num |-> 100, den |-> 1]

\* C10: in a run of the script the material list handed to send_to_feishu
\* is the LiPF6 entry followed by the VC entry, the VC entry being a failure
\* record, and the text never has the materials warning line.
C10_TwoMaterials ==
    (entry = "main" /\ pc \in {"send_145", "send_196", "exit"}) =>
        /\ Len(material_data) = 2
        /\ material_data[1].name = LiPF6Name
        /\ material_data[2].name = VCName
        /\ "error" \in DOMAIN material_data[2]
        /\ Formatted => Warnings("materials") = <<>>

C10_Witness ==
    /\ entry = "main"
    /\ pc = "exit"
    /\ Truthy(lipf6)
    /\ material_data[1] = lipf6
    /\ material_data[2] = VCPlaceholder
    /\ Len(Entries("materials")) = 2

====
